---- MODULE Spec2Model ----
(***************************************************************************)
(* Model of the two manifest rewriters add_hotpath.py and                  *)
(* add_channels_console.py.                                                *)
(*                                                                         *)
(* A text is a sequence of tokens; the token "\n" is the line terminator   *)
(* and every other token is a piece of text without a newline.  A line is  *)
(* a text holding at most one "\n", at its end.  The manifest on disk      *)
(* (file) is one text; readlines() splits it after every "\n" and          *)
(* writelines() concatenates the lines without adding anything.            *)
(* One behaviour is one manifest that the same script processes up to      *)
(* MaxRuns times in a row.                                                 *)
(***************************************************************************)
EXTENDS Naturals, Sequences, FiniteSets

VARIABLES script, file, pc, lines, features_exists, cleaned_lines,
          new_lines, dependency_added, features_added, i, status, versions

vars == <<script, file, pc, lines, features_exists, cleaned_lines,
          new_lines, dependency_added, features_added, i, status, versions>>

(* ---------------------------- bounds ----------------------------------- *)

MaxLen == 3

MaxRuns == 3

(* --------------------------- constants --------------------------------- *)

NL == "\n"

Scripts == {"hotpath", "channels"}

HOTPATH_DEPENDENCY_LINE == <<"hotpath = { version = \"0.7\", optional = true }", NL>>

CHANNELS_DEPENDENCY_LINE == <<"channels-console = { version = \"0.2\", optional = true, features=['tokio', 'futures'] }", NL>>

HOTPATH_FEATURE_LINES ==
    << <<"hotpath = [\"dep:hotpath\", \"hotpath/hotpath\"]", NL>>,
       <<"hotpath-alloc = [\"hotpath/hotpath-alloc\"]", NL>>,
       <<NL>>,
       <<"hotpath-off = [\"hotpath/hotpath-off\"]", NL>> >>

CHANNELS_FEATURE_LINE == <<NL>>

DEPENDENCY_LINE(s) ==
    IF s = "hotpath" THEN HOTPATH_DEPENDENCY_LINE ELSE CHANNELS_DEPENDENCY_LINE

FEATURE_LINES(s) ==
    IF s = "hotpath" THEN HOTPATH_FEATURE_LINES ELSE <<CHANNELS_FEATURE_LINE>>

BlankLine == <<NL>>

FeaturesHeaderLine == <<"[features]", NL>>

(* ------------------------ section-header patterns ---------------------- *)

\* The tokens whose text begins with "[".
BracketTokens == {"[dependencies]", "[features]", "[dev-dependencies]"}

\* re.match(r'^\[dependencies\]', line)
MatchDependencies(line) == Len(line) > 0 /\ line[1] = "[dependencies]"

\* re.match(r'^\[features\]', line)
MatchFeatures(line) == Len(line) > 0 /\ line[1] = "[features]"

\* re.match(r'^\[', line)
MatchSection(line) == Len(line) > 0 /\ line[1] \in BracketTokens

(* ----------------------------- file I/O -------------------------------- *)

RECURSIVE SplitLines(_, _)
SplitLines(text, cur) ==
    IF Len(text) = 0
    THEN IF Len(cur) = 0 THEN <<>> ELSE <<cur>>
    ELSE IF Head(text) = NL
         THEN <<Append(cur, NL)>> \o SplitLines(Tail(text), <<>>)
         ELSE SplitLines(Tail(text), Append(cur, Head(text)))

\* f.readlines()
ReadLines(text) == SplitLines(text, <<>>)

RECURSIVE WriteLines(_)
\* f.writelines(ls)
WriteLines(ls) ==
    IF Len(ls) = 0 THEN <<>> ELSE Head(ls) \o WriteLines(Tail(ls))

(* --------------------------- list helpers ------------------------------ *)

\* list.insert(-1, x): x goes in front of the last element.
InsertBeforeLast_AtFront(s, x) == <<x>> \o s

InsertBeforeLast_Append(s, x) == Append(s, x)

InsertBeforeLast(s, x) ==
    IF Len(s) = 0 THEN <<x>>
    ELSE SubSeq(s, 1, Len(s) - 1) \o <<x>> \o <<s[Len(s)]>>

RECURSIVE InsertAllBeforeLast(_, _)
\* for feature_line in FEATURE_LINES: new_lines.insert(-1, feature_line)
InsertAllBeforeLast(s, xs) ==
    IF Len(xs) = 0 THEN s
    ELSE InsertAllBeforeLast(InsertBeforeLast(s, Head(xs)), Tail(xs))

\* line in FEATURE_LINES   (hotpath)  /  line == FEATURE_LINE   (channels)
InFeatureLines(s, line) ==
    \E k \in 1..Len(FEATURE_LINES(s)) : FEATURE_LINES(s)[k] = line

IsDirective_DependencyOnly(s, line) == line = DEPENDENCY_LINE(s)

IsDirective_FeaturesOnly(s, line) == InFeatureLines(s, line)

\* "Skip lines we may have added previously"
IsDirective(s, line) == line = DEPENDENCY_LINE(s) \/ InFeatureLines(s, line)

NeedsSection_NoDependencyGate(da, fe, fa) == ~fe /\ ~fa

NeedsSection_IgnoresExisting(da, fe, fa) == da /\ ~fa

\* dependency_added and not features_exists and not features_added
NeedsSection(da, fe, fa) == da /\ ~fe /\ ~fa

(* ------------------------------ inputs --------------------------------- *)

InputLines(s) ==
    { <<"[dependencies]", NL>>,
      <<"[features]", NL>>,
      <<"[dev-dependencies]", NL>>,
      <<"[features]", " # optional", NL>>,
      <<"serde = \"1\"", NL>>,
      <<" ", "[features]", NL>>,
      BlankLine,
      DEPENDENCY_LINE(s),
      FEATURE_LINES(s)[1] }

\* A file may lack the newline at its very end.
ChopNewline(text) ==
    IF Len(text) > 0 /\ text[Len(text)] = NL
    THEN SubSeq(text, 1, Len(text) - 1) ELSE text

Manifests(s) ==
    LET seqs == UNION { [1..n -> InputLines(s)] : n \in 0..MaxLen }
    IN  { WriteLines(ls) : ls \in seqs } \cup
        { ChopNewline(WriteLines(ls)) : ls \in seqs }

(* ------------------------------ actions -------------------------------- *)

Init ==
    /\ script \in Scripts
    /\ file \in Manifests(script)
    /\ pc = "start"
    /\ lines = <<>>
    /\ features_exists = FALSE
    /\ cleaned_lines = <<>>
    /\ new_lines = <<>>
    /\ dependency_added = FALSE
    /\ features_added = FALSE
    /\ i = 0
    /\ status = "none"
    /\ versions = <<file>>

\* One more invocation of the script on the same manifest.
ReadFile ==
    /\ pc \in {"start", "done"}
    /\ Len(versions) <= MaxRuns
    /\ lines' = ReadLines(file)
    /\ pc' = "first_pass"
    /\ UNCHANGED <<script, file, features_exists, cleaned_lines, new_lines,
                   dependency_added, features_added, i, status, versions>>

\* The first loop and the initialisation of the second one.  The local
\* dependencies_section_ended is assigned once and never read: it is left out.
FirstPass ==
    /\ pc = "first_pass"
    /\ cleaned_lines' = SelectSeq(lines, LAMBDA l : ~IsDirective(script, l))
    /\ features_exists' =
          \E k \in 1..Len(lines) :
              ~IsDirective(script, lines[k]) /\ MatchFeatures(lines[k])
    /\ new_lines' = <<>>
    /\ dependency_added' = FALSE
    /\ features_added' = FALSE
    /\ i' = 0
    /\ pc' = "second_pass"
    /\ UNCHANGED <<script, file, lines, status, versions>>

InLoop == pc = "second_pass" /\ i < Len(cleaned_lines)

Line == cleaned_lines[i + 1]

AddDependency ==
    /\ InLoop
    /\ MatchDependencies(Line) /\ ~dependency_added
    /\ new_lines' = Append(Append(new_lines, Line), DEPENDENCY_LINE(script))
    /\ dependency_added' = TRUE
    /\ i' = i + 1
    /\ UNCHANGED <<script, file, pc, lines, features_exists, cleaned_lines,
                   features_added, status, versions>>

AddFeatures ==
    /\ InLoop
    /\ ~(MatchDependencies(Line) /\ ~dependency_added)
    /\ MatchFeatures(Line) /\ ~features_added
    /\ new_lines' = Append(new_lines, Line) \o FEATURE_LINES(script)
    /\ features_added' = TRUE
    /\ i' = i + 1
    /\ UNCHANGED <<script, file, pc, lines, features_exists, cleaned_lines,
                   dependency_added, status, versions>>

OtherSection ==
    /\ InLoop
    /\ ~(MatchDependencies(Line) /\ ~dependency_added)
    /\ ~(MatchFeatures(Line) /\ ~features_added)
    /\ MatchSection(Line) /\ ~MatchDependencies(Line)
    /\ IF NeedsSection(dependency_added, features_exists, features_added)
       THEN /\ new_lines' =
                  InsertAllBeforeLast(
                      InsertBeforeLast(
                          InsertBeforeLast(Append(new_lines, Line), BlankLine),
                          FeaturesHeaderLine),
                      FEATURE_LINES(script))
            /\ features_added' = TRUE
       ELSE /\ new_lines' = Append(new_lines, Line)
            /\ UNCHANGED features_added
    /\ i' = i + 1
    /\ UNCHANGED <<script, file, pc, lines, features_exists, cleaned_lines,
                   dependency_added, status, versions>>

CopyLine_Dropped ==
    /\ InLoop
    /\ ~(MatchDependencies(Line) /\ ~dependency_added)
    /\ ~(MatchFeatures(Line) /\ ~features_added)
    /\ ~(MatchSection(Line) /\ ~MatchDependencies(Line))
    /\ i' = i + 1
    /\ UNCHANGED <<script, file, pc, lines, features_exists, cleaned_lines,
                   new_lines, dependency_added, features_added, status,
                   versions>>

CopyLine ==
    /\ InLoop
    /\ ~(MatchDependencies(Line) /\ ~dependency_added)
    /\ ~(MatchFeatures(Line) /\ ~features_added)
    /\ ~(MatchSection(Line) /\ ~MatchDependencies(Line))
    /\ new_lines' = Append(new_lines, Line)
    /\ i' = i + 1
    /\ UNCHANGED <<script, file, pc, lines, features_exists, cleaned_lines,
                   dependency_added, features_added, status, versions>>

AppendAtEnd_Skipped ==
    /\ pc = "second_pass" /\ i >= Len(cleaned_lines)
    /\ pc' = "write"
    /\ UNCHANGED <<script, file, lines, features_exists, cleaned_lines,
                   new_lines, dependency_added, features_added, i, status,
                   versions>>

AppendAtEnd ==
    /\ pc = "second_pass" /\ i >= Len(cleaned_lines)
    /\ IF NeedsSection(dependency_added, features_exists, features_added)
       THEN /\ new_lines' = Append(Append(new_lines, BlankLine),
                                   FeaturesHeaderLine) \o FEATURE_LINES(script)
            /\ features_added' = TRUE
       ELSE UNCHANGED <<new_lines, features_added>>
    /\ pc' = "write"
    /\ UNCHANGED <<script, file, lines, features_exists, cleaned_lines,
                   dependency_added, i, status, versions>>

WriteBack ==
    /\ pc = "write"
    /\ file' = WriteLines(new_lines)
    /\ versions' = Append(versions, file')
    /\ pc' = "report"
    /\ UNCHANGED <<script, lines, features_exists, cleaned_lines, new_lines,
                   dependency_added, features_added, i, status>>

Report ==
    /\ pc = "report"
    /\ status' = IF dependency_added /\ features_added THEN "ok" ELSE "warning"
    /\ pc' = "done"
    /\ UNCHANGED <<script, file, lines, features_exists, cleaned_lines,
                   new_lines, dependency_added, features_added, i, versions>>

Next ==
    \/ ReadFile
    \/ FirstPass
    \/ AddDependency
    \/ AddFeatures
    \/ OtherSection
    \/ CopyLine
    \/ AppendAtEnd
    \/ WriteBack
    \/ Report

Spec == Init /\ [][Next]_vars

(* ===================== properties of the rewrite ======================= *)

Done == pc = "done"

NumRuns == Len(versions) - 1

Count(ls, P(_)) == Len(SelectSeq(ls, P))

IsDependencyLine(l) == l = DEPENDENCY_LINE(script)

IsBlank(l) == l = BlankLine

HasDependencies(ls) == \E k \in 1..Len(ls) : MatchDependencies(ls[k])

HasFeatures(ls) == \E k \in 1..Len(ls) : MatchFeatures(ls[k])

NumFeatures(ls) == Count(ls, MatchFeatures)

\* The input of the current run without its directive lines.
Stripped(ls) ==
    SelectSeq(ls, LAMBDA l : ~(l = DEPENDENCY_LINE(script) \/ InFeatureLines(script, l)))

\* Index of the first element after position from that satisfies P,
\* Len(ls) + 1 when there is none.
FirstAfter(ls, from, P(_)) ==
    CHOOSE k \in (from + 1)..(Len(ls) + 1) :
        /\ k = Len(ls) + 1 \/ P(ls[k])
        /\ \A j \in (from + 1)..(k - 1) : ~P(ls[j])

OtherHeader(l) == MatchSection(l) /\ ~MatchDependencies(l)

\* xs occurs in ls as a contiguous block starting right after position k.
BlockAfter(ls, k, xs) ==
    /\ k + Len(xs) <= Len(ls)
    /\ SubSeq(ls, k + 1, k + Len(xs)) = xs

SynthesizedSection == <<BlankLine, FeaturesHeaderLine>> \o FEATURE_LINES(script)

AllTerminated(text) == Len(text) = 0 \/ text[Len(text)] = NL

\* C1: the rewrite is idempotent: running it on the output of a first run
\* reproduces that output exactly, also when the first run synthesized a
\* [features] section.
C1_Idempotent == NumRuns >= 2 => versions[3] = versions[2]

\* C2: after every run the output holds exactly one line equal to the
\* dependency line when some input line matches the [dependencies] header,
\* and none otherwise, however many copies the input held.
C2_DependencyUnique ==
    Done => Count(new_lines, IsDependencyLine) =
                (IF HasDependencies(lines) THEN 1 ELSE 0)

C2_Witness ==
    /\ Done
    /\ HasDependencies(lines)
    /\ Count(lines, IsDependencyLine) >= 2
    /\ Count(new_lines, IsDependencyLine) = 1

\* C3 as stated: without a [dependencies] header nothing is inserted, so the
\* output is the input without its directive lines, also when the input has
\* a [features] header.
C3_NothingInserted ==
    (Done /\ ~HasDependencies(lines)) => new_lines = Stripped(lines)

\* C3 (amended): without a [dependencies] header the rewrite inserts neither
\* the dependency line nor a [features] header; the output is the input
\* without its directive lines, except that the feature block is inserted
\* right after the first [features] header when the input has one.
C3_NoDependenciesHeader ==
    (Done /\ ~HasDependencies(lines)) =>
        LET c == Stripped(lines)
            f == FirstAfter(c, 0, MatchFeatures)
        IN  /\ Count(new_lines, IsDependencyLine) = 0
            /\ NumFeatures(new_lines) = NumFeatures(lines)
            /\ new_lines =
                  IF f > Len(c) THEN c
                  ELSE SubSeq(c, 1, f) \o FEATURE_LINES(script)
                                       \o SubSeq(c, f + 1, Len(c))

C3_Witness ==
    /\ Done
    /\ ~HasDependencies(lines)
    /\ HasFeatures(lines)
    /\ Len(Stripped(lines)) < Len(lines)
    /\ new_lines # Stripped(lines)

\* C4 as stated: every output of the hotpath script has exactly one line
\* matching the [features] header, with the feature block under it.
C4_ExactlyOneSection ==
    (Done /\ script = "hotpath") =>
        /\ NumFeatures(new_lines) = 1
        /\ BlockAfter(new_lines, FirstAfter(new_lines, 0, MatchFeatures),
                      FEATURE_LINES(script))

\* C4 (amended): the output of the hotpath script has as many lines matching
\* the [features] header as the input, plus one when the input has none but
\* has a [dependencies] header (so exactly one when the input has at most
\* one [features] header and has one of the two headers); whenever the
\* output has such a line, the feature block stands in its defined order
\* right after the first one.
C4_SectionCount ==
    (Done /\ script = "hotpath") =>
        /\ NumFeatures(new_lines) =
              (IF HasFeatures(lines) THEN NumFeatures(lines)
               ELSE IF HasDependencies(lines) THEN 1 ELSE 0)
        /\ NumFeatures(new_lines) > 0 =>
              BlockAfter(new_lines, FirstAfter(new_lines, 0, MatchFeatures),
                         FEATURE_LINES(script))

C4_Witness ==
    /\ Done /\ script = "hotpath"
    /\ HasDependencies(lines)
    /\ NumFeatures(lines) = 1
    /\ NumFeatures(new_lines) = 1
    /\ BlockAfter(new_lines, FirstAfter(new_lines, 0, MatchFeatures),
                  FEATURE_LINES(script))

\* C5: whenever the feature lines were inserted (under an existing header,
\* before another section, or at the end), the output holds the complete
\* feature block, in order and contiguous, right after a [features] header.
C5_BlockIntegrity ==
    (Done /\ features_added) =>
        \E k \in 1..Len(new_lines) :
            /\ MatchFeatures(new_lines[k])
            /\ BlockAfter(new_lines, k, FEATURE_LINES(script))

C5_Witness ==
    /\ Done /\ features_added /\ ~features_exists
    /\ script = "hotpath"
    /\ OtherHeader(new_lines[Len(new_lines)])

\* C6: a synthesized section (blank line, [features] header, feature block)
\* stands after the first [dependencies] header and the inserted dependency
\* line, right before the first later line that starts with "[" and is not
\* a [dependencies] header, and at the end of the output when there is none.
C6_HeaderPlacement ==
    (Done /\ HasDependencies(lines) /\ ~HasFeatures(lines)) =>
        LET c == Stripped(lines)
            d == FirstAfter(c, 0, MatchDependencies)
            h == FirstAfter(c, d, OtherHeader)
        IN  new_lines = SubSeq(c, 1, d) \o <<DEPENDENCY_LINE(script)>>
                            \o SubSeq(c, d + 1, h - 1)
                            \o SynthesizedSection
                            \o SubSeq(c, h, Len(c))

C6_Witness ==
    /\ Done /\ HasDependencies(lines) /\ ~HasFeatures(lines)
    /\ LET c == Stripped(lines)
           d == FirstAfter(c, 0, MatchDependencies)
           h == FirstAfter(c, d, OtherHeader)
       IN  d + 1 < h /\ h <= Len(c)

\* Neither a section header nor a directive line.
Unrelated(l) == ~MatchSection(l) /\ ~IsDirective(script, l)

\* C7: the input lines that match no header pattern and equal no directive
\* line are all in the output, verbatim and in their original order.
C7_PassThrough ==
    Done => SelectSeq(new_lines, Unrelated) = SelectSeq(lines, Unrelated)

C7_Witness ==
    /\ Done
    /\ features_added /\ dependency_added
    /\ LET u == SelectSeq(lines, Unrelated)
       IN  Len(u) >= 2 /\ u[1] # u[2]

\* C8: the warning is reported exactly for the files without a line matching
\* the [dependencies] header; once the dependency line was inserted the
\* feature block is inserted too by the end of the run.
C8_WarningOnlyWithoutHeader ==
    Done => /\ dependency_added => features_added
            /\ (status = "warning") <=> ~HasDependencies(lines)
            /\ (status = "ok") <=> HasDependencies(lines)

C8_Witness ==
    /\ Done
    /\ status = "ok"
    /\ ~features_exists
    /\ ~OtherHeader(new_lines[Len(new_lines)])

\* C9: for a manifest of newline-terminated lines the third run writes what
\* the second run wrote, whether or not the second run changed the output of
\* the first.
C9_ConvergesInTwoRuns ==
    (NumRuns >= 3 /\ AllTerminated(versions[1])) => versions[4] = versions[3]

C9_Witness ==
    /\ NumRuns >= 3
    /\ AllTerminated(versions[1])
    /\ versions[3] # versions[2]
    /\ versions[4] = versions[3]

\* C10: no blank line of the input survives; the output has no blank line
\* when nothing was inserted, one when the feature block went under an
\* existing [features] header, and two when the section was synthesized.
C10_BlankLines ==
    Done => Count(new_lines, IsBlank) =
                (IF HasFeatures(lines) THEN 1
                 ELSE IF HasDependencies(lines) THEN 2 ELSE 0)

C10_Witness ==
    /\ Done
    /\ Count(lines, IsBlank) >= 1
    /\ HasDependencies(lines) /\ ~HasFeatures(lines)
    /\ Count(new_lines, IsBlank) = 2

====
